---- MODULE Spec2Model ----
(***************************************************************************)
(* Model of src/index.ts: one run of the Minecraft Bedrock version         *)
(* detector fetches the download links, loads the previous versions.json,  *)
(* reconciles the two, rewrites the file and emits the action outputs.     *)
(* Runs follow one another on the same file.                               *)
(*                                                                         *)
(* A URL is a record [dir, ver]: ver is the dotted version embedded in a   *)
(* file name of the form bedrock-server-<ver>.zip, or "" when the URL has  *)
(* no such file name.  A releasedAt string is a record [ms, zone]: two     *)
(* strings with the same ms and different zones are different strings that *)
(* denote the same instant.  Only strings that Date can parse are          *)
(* modelled.  A parsed JSON object is a record whose DOMAIN is the set of  *)
(* properties the object has.                                              *)
(***************************************************************************)
EXTENDS Integers, Sequences, FiniteSets, TLC

(* ---------------------------- bounds ----------------------------------- *)

\* number of consecutive runs of the action on the same file
MaxRuns == 3

\* longest history array of a versions.json that exists before the first run
MaxHist == 2

(* ---------------------------- values ----------------------------------- *)

Url(dir, ver) == [dir |-> dir, ver |-> ver]

\* the empty string ''
EmptyUrl == Url("", "")

V1 == "1.0.0.1"

V2 == "1.0.0.2"

Ts(ms, zone) == [ms |-> ms, zone |-> zone]

\* null / undefined
Null == [kind |-> "null"]

Link(type, url) == [downloadType |-> type, downloadUrl |-> url]

\* bodies the API can answer with: the links array of result.links
StableLinks ==
  { << Link("serverBedrockWindows", Url("bin-win", V1)),
       Link("serverBedrockLinux", Url("bin-linux", V1)) >>,
    << Link("serverBedrockWindows", Url("cdn-win", V1)),
       Link("serverBedrockLinux", Url("bin-linux", V1)) >>,
    << Link("serverBedrockWindows", Url("bin-win", V2)),
       Link("serverBedrockLinux", Url("bin-linux", V2)) >>,
    << Link("serverBedrockLinux", Url("bin-linux", V1)) >>,
    << Link("serverBedrockWindows", Url("bin-win", "")) >> }

PreviewLinks ==
  { << Link("serverBedrockPreviewWindows", Url("bin-win-preview", V1)) >>,
    << Link("serverBedrockPreviewWindows", Url("bin-win-preview", V2)),
       Link("serverBedrockPreviewWindows", Url("bin-win-preview", V1)) >> }

Responses == { s \o p : s \in StableLinks, p \in PreviewLinks }

(* ------------------------- pure functions ------------------------------ *)

\* new Date(s).getTime()
getTime(releasedAt) == releasedAt.ms

\* new Date().toISOString() at clock reading ms
toISOString(ms) == Ts(ms, "Z")

\* the null a failed match yields, kept apart from every version string
NoMatch == "<null>"

\* url.match(/bedrock-server-(\d+\.\d+(?:\.\d+){1,2})\.zip/)
extractVersion(url) == IF url.ver = "" THEN NoMatch ELSE url.ver

\* a || b for a possibly-null string a
OrElse(a, b) == IF a = NoMatch THEN b ELSE a

\* links.find(link => link.downloadType === type)?.downloadUrl || ''
RECURSIVE findUrl(_, _)
findUrl(links, type) ==
  IF links = << >> THEN EmptyUrl
  ELSE IF Head(links).downloadType = type THEN Head(links).downloadUrl
  ELSE findUrl(Tail(links), type)

VersionInfo(version, windows, linux, releasedAt) ==
  [version |-> version, windows |-> windows, linux |-> linux,
   releasedAt |-> releasedAt]

\* the value fetchLatestVersions returns for a 2xx body with these links
fetchLatestVersions(links, clock) ==
  LET stableWindows == findUrl(links, "serverBedrockWindows")
      stableLinux == findUrl(links, "serverBedrockLinux")
      previewWindows == findUrl(links, "serverBedrockPreviewWindows")
      previewLinux == findUrl(links, "serverBedrockPreviewLinux")
      stableVersion ==
        OrElse(OrElse(extractVersion(stableWindows),
                      extractVersion(stableLinux)), "unknown")
      previewVersion ==
        OrElse(OrElse(extractVersion(previewWindows),
                      extractVersion(previewLinux)), "unknown")
      now == toISOString(clock)
  IN [stable |-> VersionInfo(stableVersion, stableWindows, stableLinux, now),
      preview |-> VersionInfo(previewVersion, previewWindows, previewLinux,
                              now)]

\* what loadExistingData resolves to for a file
loadExistingData(f) ==
  IF f.kind = "absent" THEN Null
  ELSE IF f.kind = "corrupt" THEN Null
  ELSE f.data

HistoryEntry(type, info) ==
  [type |-> type, version |-> info.version, windows |-> info.windows,
   linux |-> info.linux, releasedAt |-> info.releasedAt]

\* fault: findLastIndex in place of findIndex, so the last duplicate survives
findLastIndex(self, entry) ==
  LET hits == { i \in 1..Len(self) :
                  self[i].type = entry.type /\ self[i].version = entry.version }
  IN IF hits = {} THEN 0
     ELSE CHOOSE i \in hits : \A j \in hits : i >= j

\* self.findIndex((e) => e.type === entry.type && e.version === entry.version)
findIndex(self, entry) ==
  LET hits == { i \in 1..Len(self) :
                  self[i].type = entry.type /\ self[i].version = entry.version }
  IN IF hits = {} THEN 0
     ELSE CHOOSE i \in hits : \A j \in hits : i <= j

\* newHistory.filter((entry, index, self) => index === self.findIndex(...))
RECURSIVE filterFrom(_, _)
filterFrom(self, index) ==
  IF index > Len(self) THEN << >>
  ELSE IF index = findIndex(self, self[index])
       THEN << self[index] >> \o filterFrom(self, index + 1)
       ELSE filterFrom(self, index + 1)

dedupe(newHistory) == filterFrom(newHistory, 1)

\* fault: the comparator's operands swapped, oldest first
compareAscending(a, b) == getTime(a.releasedAt) - getTime(b.releasedAt)

\* (a, b) => new Date(b.releasedAt).getTime() - new Date(a.releasedAt).getTime()
compare(a, b) == getTime(b.releasedAt) - getTime(a.releasedAt)

\* fault: a sort that is not stable, x overtakes the elements equal to it
RECURSIVE insertUnstable(_, _)
insertUnstable(sorted, x) ==
  IF sorted = << >> THEN << x >>
  ELSE IF getTime(x.releasedAt) >= getTime(Head(sorted).releasedAt)
       THEN << x >> \o sorted
       ELSE << Head(sorted) >> \o insertUnstable(Tail(sorted), x)

\* Array.prototype.sort is stable: x goes before the first element that the
\* comparator orders strictly after it
RECURSIVE insert(_, _)
insert(sorted, x) ==
  IF sorted = << >> THEN << x >>
  ELSE IF compare(x, Head(sorted)) < 0 THEN << x >> \o sorted
  ELSE << Head(sorted) >> \o insert(Tail(sorted), x)

RECURSIVE sort(_)
sort(arr) ==
  IF arr = << >> THEN << >>
  ELSE insert(sort(SubSeq(arr, 1, Len(arr) - 1)), arr[Len(arr)])

\* fault: a changed locator counts as a changed version
descriptorChanged(existingInfo, fetchedInfo) ==
  \/ existingInfo.version # fetchedInfo.version
  \/ existingInfo.windows # fetchedInfo.windows
  \/ existingInfo.linux # fetchedInfo.linux

\* existingData.latest.<channel>.version !== latestVersions.<channel>.version
versionChanged(existingInfo, fetchedInfo) ==
  existingInfo.version # fetchedInfo.version

\* fault: the new descriptor is pushed instead of the old one
pushedFetched(type, existingInfo, fetchedInfo) ==
  IF existingInfo.version # fetchedInfo.version
  THEN << HistoryEntry(type, fetchedInfo) >>
  ELSE << >>

\* the entries one channel pushes onto newHistory
pushed(type, existingInfo, fetchedInfo) ==
  IF versionChanged(existingInfo, fetchedInfo)
  THEN << HistoryEntry(type, existingInfo) >>
  ELSE << >>

\* fault: the preserved timestamp is re-serialised through Date
settledReformatted(existingInfo, fetchedInfo) ==
  IF existingInfo.version # fetchedInfo.version
  THEN fetchedInfo
  ELSE [fetchedInfo EXCEPT
          !.releasedAt = toISOString(getTime(existingInfo.releasedAt))]

\* latestVersions.<channel> after the channel's branch has run
settled(existingInfo, fetchedInfo) ==
  IF versionChanged(existingInfo, fetchedInfo)
  THEN fetchedInfo
  ELSE [fetchedInfo EXCEPT !.releasedAt = existingInfo.releasedAt]

\* fault: the existing history is not carried over
priorHistoryDropped(existingData) == << >>

\* existingData?.history || []
priorHistory(existingData) ==
  IF existingData # Null /\ "history" \in DOMAIN existingData
  THEN existingData.history
  ELSE << >>

\* existingData.latest.stable.version and existingData.latest.preview.version
\* can be read: latest, latest.stable and latest.preview are there
readable(existingData) ==
  /\ "latest" \in DOMAIN existingData
  /\ "stable" \in DOMAIN existingData.latest
  /\ "preview" \in DOMAIN existingData.latest

\* hasChanges ? 'true' : 'false'
boolString(b) == IF b THEN "true" ELSE "false"

Output(name, value) == [name |-> name, value |-> value]

(* ------------------------------ state ---------------------------------- *)

VARIABLES
  file,            \* versions.json on disk: absent, unparseable, or JSON data
  startFile,       \* the file as it was when the current run started
  clock,           \* the reading new Date() gives in the current run
  pc,              \* where main() is
  fetched,         \* what fetchLatestVersions returned
  latestVersions,  \* main's latestVersions, mutated by the reconciliation
  existingData,    \* what loadExistingData returned
  hasChanges,      \* main's hasChanges
  newHistory,      \* main's newHistory after the pushes
  versionData,     \* the object main serialises
  stdout,          \* the ::set-output lines printed, in order
  githubOutput,    \* content left in the GITHUB_OUTPUT file by this run
  warned,          \* loadExistingData printed its warning
  exitCode,        \* -1 while the process runs, else its exit code
  error,           \* what main().catch reported
  prevLatest       \* latest written by the previous run when it exited 0

vars ==
  << file, startFile, clock, pc, fetched, latestVersions, existingData,
     hasChanges, newHistory, versionData, stdout, githubOutput, warned,
     exitCode, error, prevLatest >>

Absent == [kind |-> "absent"]

Corrupt == [kind |-> "corrupt"]

Json(data) == [kind |-> "json", data |-> data]

(* -------------------- files found by the first run --------------------- *)

InitStable ==
  { VersionInfo(V1, Url("bin-win", V1), Url("bin-linux", V1), Ts(1, "+09:00")),
    VersionInfo(V2, Url("bin-win", V2), Url("bin-linux", V2), Ts(0, "Z")) }

InitPreview ==
  { VersionInfo(V1, Url("bin-win-preview", V1), EmptyUrl, Ts(1, "Z")) }

InitEntries ==
  { [type |-> "stable", version |-> V1, windows |-> Url("bin-win", V1),
     linux |-> Url("bin-linux", V1), releasedAt |-> Ts(0, "Z")],
    [type |-> "stable", version |-> V1, windows |-> Url("cdn-win", V1),
     linux |-> Url("bin-linux", V1), releasedAt |-> Ts(2, "+09:00")],
    [type |-> "preview", version |-> V1,
     windows |-> Url("bin-win-preview", V1), linux |-> EmptyUrl,
     releasedAt |-> Ts(2, "Z")],
    [type |-> "stable", version |-> V2, windows |-> Url("bin-win", V2),
     linux |-> Url("bin-linux", V2), releasedAt |-> Ts(1, "Z")] }

InitHistories ==
  UNION { [1..n -> InitEntries] : n \in 0..MaxHist }

InitLatest ==
  { [stable |-> s, preview |-> p] : s \in InitStable, p \in InitPreview }

InitFiles ==
  { Absent, Corrupt }
  \cup { Json([latest |-> l, history |-> h]) :
           l \in InitLatest, h \in InitHistories }
  \cup { Json([latest |-> l]) : l \in InitLatest }
  \cup { Json([history |-> h]) : h \in { << >> } }
  \cup { Json([latest |-> [stable |-> l.stable], history |-> << >>]) :
           l \in InitLatest }
  \cup { Json([latest |-> [preview |-> l.preview], history |-> << >>]) :
           l \in InitLatest }

Init ==
  /\ file \in InitFiles
  /\ startFile = file
  /\ clock = 1
  /\ pc = "start"
  /\ fetched = Null
  /\ latestVersions = Null
  /\ existingData = Null
  /\ hasChanges = FALSE
  /\ newHistory = << >>
  /\ versionData = Null
  /\ stdout = << >>
  /\ githubOutput = << >>
  /\ warned = FALSE
  /\ exitCode = -1
  /\ error = ""
  /\ prevLatest = Null

(* ----------------------------- actions --------------------------------- *)

\* fault: the catch handler reports the error and lets the process end with 0
FailExitZero(message) ==
  /\ pc' = "exited"
  /\ exitCode' = 0
  /\ error' = message

\* main().catch: console.error and process.exit(1)
Fail(message) ==
  /\ pc' = "exited"
  /\ exitCode' = 1
  /\ error' = message

\* line 49: fetch rejects (network error)
FetchRejects ==
  /\ pc = "start"
  /\ Fail("fetch failed")
  /\ UNCHANGED << file, startFile, clock, fetched, latestVersions,
                  existingData, hasChanges, newHistory, versionData, stdout,
                  githubOutput, warned, prevLatest >>

\* lines 50-52: the response is not 2xx
FetchNotOk ==
  /\ pc = "start"
  /\ Fail("Failed to fetch versions")
  /\ UNCHANGED << file, startFile, clock, fetched, latestVersions,
                  existingData, hasChanges, newHistory, versionData, stdout,
                  githubOutput, warned, prevLatest >>

\* lines 54-55: the body is not JSON or has no result.links
FetchBadBody ==
  /\ pc = "start"
  /\ Fail("TypeError")
  /\ UNCHANGED << file, startFile, clock, fetched, latestVersions,
                  existingData, hasChanges, newHistory, versionData, stdout,
                  githubOutput, warned, prevLatest >>

\* lines 111-114: fetchLatestVersions resolves
FetchOk ==
  /\ pc = "start"
  /\ \E links \in Responses :
       /\ fetched' = fetchLatestVersions(links, clock)
       /\ latestVersions' = fetchLatestVersions(links, clock)
  /\ pc' = "fetched"
  /\ UNCHANGED << file, startFile, clock, existingData, hasChanges,
                  newHistory, versionData, stdout, githubOutput, warned,
                  exitCode, error, prevLatest >>

\* line 116: loadExistingData resolves
Load ==
  /\ pc = "fetched"
  /\ existingData' = loadExistingData(file)
  /\ warned' = (file.kind = "corrupt")
  /\ pc' = "loaded"
  /\ UNCHANGED << file, startFile, clock, fetched, latestVersions,
                  hasChanges, newHistory, versionData, stdout, githubOutput,
                  exitCode, error, prevLatest >>

\* fault: the bootstrap branch forgets to set hasChanges
ReconcileBootstrapUnflagged ==
  /\ pc = "loaded"
  /\ existingData = Null
  /\ hasChanges' = FALSE
  /\ newHistory' = << >>
  /\ versionData' = [latest |-> latestVersions, history |-> << >>]
  /\ pc' = "reconciled"
  /\ UNCHANGED << file, startFile, clock, fetched, latestVersions,
                  existingData, stdout, githubOutput, warned, exitCode,
                  error, prevLatest >>

\* lines 118-123 and 165-176: no existing data
ReconcileBootstrap ==
  /\ pc = "loaded"
  /\ existingData = Null
  /\ hasChanges' = TRUE
  /\ newHistory' = priorHistory(existingData)
  /\ versionData' =
       [latest |-> latestVersions,
        history |-> sort(dedupe(priorHistory(existingData)))]
  /\ pc' = "reconciled"
  /\ UNCHANGED << file, startFile, clock, fetched, latestVersions,
                  existingData, stdout, githubOutput, warned, exitCode,
                  error, prevLatest >>

\* lines 125-126: existingData.latest, or its stable or preview, is undefined
\* and reading a property of it throws
ReconcileThrows ==
  /\ pc = "loaded"
  /\ existingData # Null
  /\ ~readable(existingData)
  /\ Fail("TypeError")
  /\ UNCHANGED << file, startFile, clock, fetched, latestVersions,
                  existingData, hasChanges, newHistory, versionData, stdout,
                  githubOutput, warned, prevLatest >>

\* lines 118-176 with existing data
Reconcile ==
  /\ pc = "loaded"
  /\ existingData # Null
  /\ readable(existingData)
  /\ LET old == existingData.latest
         history ==
           priorHistory(existingData)
             \o pushed("stable", old.stable, latestVersions.stable)
             \o pushed("preview", old.preview, latestVersions.preview)
         latest ==
           [stable |-> settled(old.stable, latestVersions.stable),
            preview |-> settled(old.preview, latestVersions.preview)]
     IN /\ hasChanges' =
             (versionChanged(old.stable, latestVersions.stable)
                \/ versionChanged(old.preview, latestVersions.preview))
        /\ newHistory' = history
        /\ latestVersions' = latest
        /\ versionData' = [latest |-> latest, history |-> sort(dedupe(history))]
  /\ pc' = "reconciled"
  /\ UNCHANGED << file, startFile, clock, fetched, existingData, stdout,
                  githubOutput, warned, exitCode, error, prevLatest >>

\* line 179: JSON.stringify and writeFile
WriteFile ==
  /\ pc = "reconciled"
  /\ file' = Json(versionData)
  /\ pc' = "written"
  /\ UNCHANGED << startFile, clock, fetched, latestVersions, existingData,
                  hasChanges, newHistory, versionData, stdout, githubOutput,
                  warned, exitCode, error, prevLatest >>

\* the four setOutput calls of lines 183-186
Outputs ==
  << Output("updated", boolString(hasChanges)),
     Output("stable-version", latestVersions.stable.version),
     Output("preview-version", latestVersions.preview.version),
     Output("has-changes", boolString(hasChanges)) >>

\* lines 183-188.  Each setOutput starts an unawaited Bun.write that replaces
\* the GITHUB_OUTPUT file, and process.exit follows at once: the file is left
\* with one of the four lines, or untouched (also when the variable is unset)
EmitAndExit ==
  /\ pc = "written"
  /\ stdout' = Outputs
  /\ githubOutput' \in { << >> } \cup { << Outputs[i] >> : i \in 1..4 }
  /\ exitCode' = 0
  /\ pc' = "exited"
  /\ UNCHANGED << file, startFile, clock, fetched, latestVersions,
                  existingData, hasChanges, newHistory, versionData, warned,
                  error, prevLatest >>

\* the workflow schedules the next run: a fresh process on the same file
NextRun ==
  /\ pc = "exited"
  /\ clock < MaxRuns
  /\ clock' = clock + 1
  /\ startFile' = file
  /\ prevLatest' = IF exitCode = 0 THEN latestVersions ELSE Null
  /\ pc' = "start"
  /\ fetched' = Null
  /\ latestVersions' = Null
  /\ existingData' = Null
  /\ hasChanges' = FALSE
  /\ newHistory' = << >>
  /\ versionData' = Null
  /\ stdout' = << >>
  /\ githubOutput' = << >>
  /\ warned' = FALSE
  /\ exitCode' = -1
  /\ error' = ""
  /\ UNCHANGED file

Next ==
  \/ FetchRejects
  \/ FetchNotOk
  \/ FetchBadBody
  \/ FetchOk
  \/ Load
  \/ ReconcileBootstrap
  \/ ReconcileThrows
  \/ Reconcile
  \/ WriteFile
  \/ EmitAndExit
  \/ NextRun

Spec == Init /\ [][Next]_vars

(* --------------------------- properties -------------------------------- *)

\* the run has written the file
Wrote == pc = "written" \/ (pc = "exited" /\ exitCode = 0)

\* the run took the branch that compares with existing data
Compared == Wrote /\ existingData # Null

\* two descriptors agree on identifier and locators
SameDescriptor(a, b) ==
  a.version = b.version /\ a.windows = b.windows /\ a.linux = b.linux

SameKey(a, b) == a.type = b.type /\ a.version = b.version

\* position of the first entry of h with the key of e
FirstAt(h, e) ==
  CHOOSE i \in 1..Len(h) :
    SameKey(h[i], e) /\ \A j \in 1..(i - 1) : ~SameKey(h[j], e)

Channels == { "stable", "preview" }

\* C1: a run that follows a successful run on the file that run wrote, and
\* fetches the same stable and preview descriptors, reports changed=false
\* and leaves a file equal to the one it read
C1_Idempotent ==
  ( /\ Wrote
    /\ prevLatest # Null
    /\ \A c \in Channels : SameDescriptor(prevLatest[c], fetched[c]) )
  => ( /\ hasChanges = FALSE
       /\ file = startFile
       /\ pc = "exited" =>
            stdout[1].value = "false" /\ stdout[4].value = "false" )

C1_Witness ==
  /\ pc = "exited"
  /\ exitCode = 0
  /\ prevLatest # Null
  /\ \A c \in Channels : SameDescriptor(prevLatest[c], fetched[c])
  /\ Len(file.data.history) >= 3
  /\ \E i \in 1..(Len(file.data.history) - 1) :
       getTime(file.data.history[i].releasedAt)
         = getTime(file.data.history[i + 1].releasedAt)

\* C2: with no prior file the run reports changed=true, writes an empty
\* history and writes both fetched descriptors stamped with the run's now
C2_Bootstrap ==
  (Wrote /\ startFile = Absent)
  => ( /\ hasChanges = TRUE
       /\ file.kind = "json"
       /\ file.data.history = << >>
       /\ \A c \in Channels :
            /\ SameDescriptor(file.data.latest[c], fetched[c])
            /\ file.data.latest[c].releasedAt = Ts(clock, "Z")
       /\ pc = "exited" => stdout[4] = Output("has-changes", "true") )

C2_Witness ==
  /\ pc = "exited"
  /\ startFile = Absent
  /\ exitCode = 0
  /\ clock = 1
  /\ file.data.latest.stable.version = V2

\* C3: updated and has-changes carry the same flag, which is true exactly
\* when there was no existing data or the stable or the preview identifier
\* differs from the existing latest one
C3_ChangedFlag ==
  (pc = "exited" /\ exitCode = 0)
  => LET flag ==
           \/ existingData = Null
           \/ \E c \in Channels :
                fetched[c].version # existingData.latest[c].version
     IN /\ hasChanges = flag
        /\ stdout[1] = Output("updated", IF flag THEN "true" ELSE "false")
        /\ stdout[4] = Output("has-changes", IF flag THEN "true" ELSE "false")

C3_Witness ==
  /\ pc = "exited"
  /\ exitCode = 0
  /\ existingData # Null
  /\ stdout[1].value = "false"
  /\ fetched.stable.windows # existingData.latest.stable.windows

\* the entry that records the existing latest descriptor of a channel
Superseded(c) ==
  [type |-> c,
   version |-> existingData.latest[c].version,
   windows |-> existingData.latest[c].windows,
   linux |-> existingData.latest[c].linux,
   releasedAt |-> existingData.latest[c].releasedAt]

InHistory(e, h) == \E i \in 1..Len(h) : h[i] = e

HasKey(h, c, version) ==
  \E i \in 1..Len(h) : h[i].type = c /\ h[i].version = version

ChannelChanged(c) ==
  Compared /\ fetched[c].version # existingData.latest[c].version

WrittenFetched(c) ==
  /\ SameDescriptor(file.data.latest[c], fetched[c])
  /\ file.data.latest[c].releasedAt = Ts(clock, "Z")

\* C4 as stated: whenever a channel's identifier changed, the written
\* history holds the existing latest descriptor with its own releasedAt,
\* also when the existing history already has an entry with that key
C4_AppendAlways ==
  \A c \in Channels :
    ChannelChanged(c)
    => /\ InHistory(Superseded(c), file.data.history)
       /\ WrittenFetched(c)

\* C4 amended: whenever a channel's identifier changed, the written latest
\* is the fetched descriptor stamped now, and the written history holds the
\* existing latest descriptor with its own releasedAt when the existing
\* history had no entry with that key, and otherwise the first entry of the
\* existing history with that key
C4_Append ==
  \A c \in Channels :
    ChannelChanged(c)
    => LET old == IF "history" \in DOMAIN existingData
                  THEN existingData.history ELSE << >>
           e == Superseded(c)
       IN /\ WrittenFetched(c)
          /\ IF HasKey(old, c, e.version)
             THEN InHistory(old[FirstAt(old, e)], file.data.history)
             ELSE InHistory(e, file.data.history)

C4_Witness ==
  /\ pc = "exited"
  /\ ChannelChanged("stable")
  /\ "history" \in DOMAIN existingData
  /\ ~HasKey(existingData.history, "stable",
             existingData.latest.stable.version)
  /\ Len(existingData.history) >= 1
  /\ InHistory(Superseded("stable"), file.data.history)

\* C5: a channel whose fetched identifier equals the existing latest one
\* keeps the existing releasedAt string, whatever the other channel does
C5_TimestampPreserved ==
  \A c \in Channels :
    (Compared /\ fetched[c].version = existingData.latest[c].version)
    => file.data.latest[c].releasedAt = existingData.latest[c].releasedAt

C5_Witness ==
  /\ pc = "exited"
  /\ Compared
  /\ fetched.stable.version = existingData.latest.stable.version
  /\ ChannelChanged("preview")
  /\ existingData.latest.stable.releasedAt.zone # "Z"
  /\ file.data.latest.preview.releasedAt = Ts(clock, "Z")

\* the history array the run read, empty when there was none
ExistingHistory ==
  IF existingData # Null /\ "history" \in DOMAIN existingData
  THEN existingData.history
  ELSE << >>

\* C6: the written history has at most one entry per (type, version), and
\* its entries are exactly the first occurrences of each key in the existing
\* history followed by the entries appended in this run
C6_Deduplicated ==
  Wrote
  => LET h == file.data.history
     IN /\ \A i, j \in 1..Len(h) : SameKey(h[i], h[j]) => i = j
        /\ SubSeq(newHistory, 1, Len(ExistingHistory)) = ExistingHistory
        /\ \A i \in 1..Len(newHistory) :
             FirstAt(newHistory, newHistory[i]) = i
               => InHistory(newHistory[i], h)
        /\ \A k \in 1..Len(h) :
             /\ HasKey(newHistory, h[k].type, h[k].version)
             /\ h[k] = newHistory[FirstAt(newHistory, h[k])]

C6_Witness ==
  /\ pc = "exited"
  /\ ChannelChanged("stable")
  /\ HasKey(ExistingHistory, "stable", existingData.latest.stable.version)
  /\ ~InHistory(Superseded("stable"), ExistingHistory)
  /\ ~InHistory(Superseded("stable"), file.data.history)
  /\ Len(newHistory) > Len(file.data.history)

\* C7: the written history is ordered by releasedAt, newest first, and
\* entries with the same instant keep the order they had after deduplication
C7_Sorted ==
  Wrote
  => LET h == file.data.history
     IN \A i, j \in 1..Len(h) :
          i < j =>
            \/ getTime(h[i].releasedAt) > getTime(h[j].releasedAt)
            \/ /\ getTime(h[i].releasedAt) = getTime(h[j].releasedAt)
               /\ FirstAt(newHistory, h[i]) < FirstAt(newHistory, h[j])

C7_Witness ==
  /\ pc = "exited"
  /\ ChannelChanged("stable")
  /\ Len(file.data.history) >= 3
  /\ file.data.history # dedupe(newHistory)
  /\ \E i \in 1..Len(ExistingHistory) :
       getTime(ExistingHistory[i].releasedAt)
         > getTime(existingData.latest.stable.releasedAt)
  /\ \E i \in 1..(Len(file.data.history) - 1) :
       getTime(file.data.history[i].releasedAt)
         = getTime(file.data.history[i + 1].releasedAt)

\* C8: a run that fails exits with code 1 and leaves the file as it was at
\* the start of the run; the file changes only once reconciliation is over;
\* a run that reaches the end exits with code 0 with or without a change
C8_FailureLeavesFile ==
  /\ (pc = "exited" /\ error # "") => (exitCode = 1 /\ file = startFile)
  /\ exitCode = 1 => (file = startFile /\ stdout = << >>)
  /\ pc \in { "start", "fetched", "loaded", "reconciled" } => file = startFile
  /\ file # startFile => (versionData # Null /\ file = Json(versionData))
  /\ (pc = "exited" /\ stdout # << >>) => exitCode = 0

C8_Witness ==
  /\ pc = "exited"
  /\ exitCode = 1
  /\ error = "Failed to fetch versions"
  /\ prevLatest # Null
  /\ startFile.kind = "json"
  /\ Len(startFile.data.history) >= 1

\* C9 as stated: load returns absent only when there is no file, and a run
\* that finds an unparseable file aborts without reconciling or overwriting
C9_CorruptAborts ==
  /\ (pc \in { "loaded", "reconciled", "written" } /\ existingData = Null)
       => startFile = Absent
  /\ startFile = Corrupt
       => (file = startFile /\ versionData = Null /\ exitCode # 0)

\* C10 as stated: a run that emits has-changes=false leaves the file with
\* the content it had before the run
C10_UpdatedOnlyIfChanged ==
  (pc = "exited" /\ exitCode = 0 /\ stdout[4] = Output("has-changes", "false"))
  => file = startFile

\* the file parses as JSON and lacks latest, latest.stable, latest.preview
\* or history
Malformed(f) ==
  /\ f.kind = "json"
  /\ \/ "history" \notin DOMAIN f.data
     \/ "latest" \notin DOMAIN f.data
     \/ "stable" \notin DOMAIN f.data.latest
     \/ "preview" \notin DOMAIN f.data.latest

\* C11 as stated: a run that starts from a malformed file writes nothing and
\* ends with an error
C11_MalformedFailsFast ==
  Malformed(startFile)
  => /\ file = startFile
     /\ pc = "exited" => (exitCode = 1 /\ error # "")

KeysOf(h) == { << h[i].type, h[i].version >> : i \in 1..Len(h) }

\* C12: after a run that compared with existing data, the (type, version)
\* pairs of the written history are exactly those of the existing history
\* together with the existing latest pair of every channel whose identifier
\* changed, so the history gains at most one entry per channel
C12_HistoryKeepsKeys ==
  Compared
  => LET written == file.data.history
         superseded ==
           { << c, existingData.latest[c].version >> :
               c \in { d \in Channels :
                         fetched[d].version # existingData.latest[d].version } }
     IN /\ KeysOf(written) = KeysOf(ExistingHistory) \cup superseded
        /\ Len(written) <= Len(ExistingHistory) + Cardinality(superseded)
        /\ prevLatest # Null =>
             \A c \in Channels :
               prevLatest[c].version # fetched[c].version
                 => HasKey(written, c, prevLatest[c].version)

C12_Witness ==
  /\ pc = "exited"
  /\ Compared
  /\ prevLatest # Null
  /\ ChannelChanged("stable")
  /\ ChannelChanged("preview")
  /\ Len(ExistingHistory) >= 2
  /\ Len(file.data.history) = Len(ExistingHistory) + 2

====
